---- MODULE Spec2Model ----
(***************************************************************************)
(* Model of src-tauri/src/lib.rs: the per-profile token vault over the OS  *)
(* keychain (save_auth_tokens, load_auth_tokens, clear_auth_tokens) and    *)
(* the thread workspace provisioner (ensure_thread_workspace).             *)
(*                                                                         *)
(* Strings are sequences of one-character strings, so that trim, lowercase *)
(* and format! act on characters.  Every keychain call and every           *)
(* filesystem call is one step of the worker that runs the command; the    *)
(* host (tauri) may run commands on several workers.                       *)
(***************************************************************************)
EXTENDS Integers, Sequences, FiniteSets, TLC

(* ------------------------------ bounds --------------------------------- *)

\* longest raw token a caller passes
MaxTokLen == 2
\* longest raw thread id a caller passes
MaxIdLen == 2

\* characters a raw token is made of (one whitespace, one content character)
TokChars == {" ", "t"}
\* characters a raw thread id is made of
IdChars == {"T", "t", " ", "/"}

RECURSIVE StringsUpTo(_, _)
StringsUpTo(chars, n) ==
    IF n = 0 THEN {<<>>}
    ELSE LET shorter == StringsUpTo(chars, n - 1)
         IN  shorter \cup {Append(s, c) : s \in shorter, c \in chars}

Tokens == StringsUpTo(TokChars, MaxTokLen)
ThreadIds == StringsUpTo(IdChars, MaxIdLen)

\* profile ids the host passes: a plain one, and one that contains the
\* delimiter and ends in a token kind
Profiles == { <<"p">>, <<"p", ":", "a", "c", "c", "e", "s", "s">> }

\* the two workers the host runs commands on
Workers == {"w1", "w2"}

(* --------------------------- Option / Result --------------------------- *)

None == <<"None">>
Some(v) == <<"Some", v>>
IsSome(o) == Len(o) = 2 /\ o[1] = "Some"
Ok(v) == <<"Ok", v>>
Err(msg) == <<"Err", msg>>
IsOk(r) == Len(r) = 2 /\ r[1] = "Ok"
IsErr(r) == Len(r) = 2 /\ r[1] = "Err"
Unit == <<>>
Pending == <<"Pending">>

(* ------------------------------ strings -------------------------------- *)

\* char::is_whitespace on the characters of the model's alphabet
WhiteSpace == {" ", "\t", "\n", "\r"}

RECURSIVE TrimStart(_)
TrimStart(s) ==
    IF s # <<>> /\ Head(s) \in WhiteSpace THEN TrimStart(Tail(s)) ELSE s

RECURSIVE TrimEnd(_)
TrimEnd(s) ==
    IF s # <<>> /\ s[Len(s)] \in WhiteSpace
    THEN TrimEnd(SubSeq(s, 1, Len(s) - 1))
    ELSE s

\* str::trim
Trim(s) == TrimEnd(TrimStart(s))

UpperLetters ==
    <<"A", "B", "C", "D", "E", "F", "G", "H", "I", "J", "K", "L", "M",
      "N", "O", "P", "Q", "R", "S", "T", "U", "V", "W", "X", "Y", "Z">>
LowerLetters ==
    <<"a", "b", "c", "d", "e", "f", "g", "h", "i", "j", "k", "l", "m",
      "n", "o", "p", "q", "r", "s", "t", "u", "v", "w", "x", "y", "z">>
Digits == {"0", "1", "2", "3", "4", "5", "6", "7", "8", "9"}

IsUpper(c) == \E i \in 1..Len(UpperLetters) : UpperLetters[i] = c
IsLower(c) == \E i \in 1..Len(LowerLetters) : LowerLetters[i] = c

\* char::to_ascii_lowercase
CharToAsciiLowercase(c) ==
    IF IsUpper(c)
    THEN LowerLetters[CHOOSE i \in 1..Len(UpperLetters) : UpperLetters[i] = c]
    ELSE c

\* str::to_ascii_lowercase
ToAsciiLowercase(s) == [i \in 1..Len(s) |-> CharToAsciiLowercase(s[i])]

\* char::is_ascii_alphanumeric
IsAsciiAlphanumeric(c) == IsUpper(c) \/ IsLower(c) \/ c \in Digits

(* --------------------------- pure functions ---------------------------- *)

KindAccess == <<"a", "c", "c", "e", "s", "s">>
KindRefresh == <<"r", "e", "f", "r", "e", "s", "h">>
TokenKinds == {KindAccess, KindRefresh}

\* an account name that leaves the profile out
account_name_KindOnly(profile_id, token_kind) == token_kind

\* format!("{profile_id}:{token_kind}")
account_name(profile_id, token_kind) == profile_id \o <<":">> \o token_kind

\* a normalize_token that removes the leading whitespace only
normalize_token_TrimStartOnly(token) ==
    LET trimmed == TrimStart(token)
    IN  IF trimmed = <<>> THEN None ELSE Some(trimmed)

\* a normalize_token that returns the token as passed, untrimmed
normalize_token_Untrimmed(token) ==
    IF Trim(token) = <<>> THEN None ELSE Some(token)

\* a normalize_token that tests the raw token, not the trimmed one, for
\* emptiness
normalize_token_RawEmptiness(token) ==
    IF token = <<>> THEN None ELSE Some(Trim(token))

normalize_token(token) ==
    LET trimmed == Trim(token)
    IN  IF trimmed = <<>> THEN None ELSE Some(trimmed)

\* a normalize_thread_id that validates the lowercased text and returns
\* the trimmed one
normalize_thread_id_NoLowercase(thread_id) ==
    LET trimmed == Trim(thread_id)
        normalized == ToAsciiLowercase(trimmed)
    IN  IF trimmed = <<>> THEN None
        ELSE IF \A i \in 1..Len(normalized) :
                    \/ IsAsciiAlphanumeric(normalized[i])
                    \/ normalized[i] \in {"-", "_", "."}
             THEN Some(trimmed)
             ELSE None

\* a normalize_thread_id that does not validate the characters
normalize_thread_id_Unvalidated(thread_id) ==
    LET trimmed == Trim(thread_id)
    IN  IF trimmed = <<>> THEN None ELSE Some(ToAsciiLowercase(trimmed))

normalize_thread_id(thread_id) ==
    LET trimmed == Trim(thread_id)
        normalized == ToAsciiLowercase(trimmed)
    IN  IF trimmed = <<>> THEN None
        ELSE IF \A i \in 1..Len(normalized) :
                    \/ IsAsciiAlphanumeric(normalized[i])
                    \/ normalized[i] = "-"
                    \/ normalized[i] = "_"
                    \/ normalized[i] = "."
             THEN Some(normalized)
             ELSE None

\* a String as the text it holds
RECURSIVE CharsToString(_)
CharsToString(s) == IF s = <<>> THEN "" ELSE Head(s) \o CharsToString(Tail(s))

\* paths are sequences of components; Path::join appends one
PathJoin(path, component) == Append(path, component)

\* Path::to_string_lossy().to_string()
RECURSIVE PathToString(_)
PathToString(path) ==
    IF path = <<>> THEN ""
    ELSE PathToString(SubSeq(path, 1, Len(path) - 1)) \o "/" \o path[Len(path)]

workspace_root_path(home) == PathJoin(PathJoin(home, "Executive Assistant"), "Ken")

(* ------------------------ external collaborators ----------------------- *)

\* keyring::Error as the adapter sees it is "NoEntry", the absence of the
\* entry, or "PlatformFailure", any other failure of the platform store.

\* what the environment does to one keychain call: nothing, fail
\* Entry::new, or fail the operation on the entry
StoreFaults == {"none", "entry", "op"}

\* Entry::set_password: overwrite the secret of one account, or fail and
\* leave it alone
set_password(st, account, secret, fault) ==
    IF fault = "op"
    THEN [res |-> Err("PlatformFailure"), store |-> st]
    ELSE [res |-> Ok(Unit),
          store |-> [a \in DOMAIN st \cup {account} |->
                        IF a = account THEN secret ELSE st[a]]]

\* Entry::get_password
get_password(st, account, fault) ==
    IF fault = "op" THEN Err("PlatformFailure")
    ELSE IF account \in DOMAIN st THEN Ok(st[account])
    ELSE Err("NoEntry")

\* Entry::delete_password (keyring names it delete_credential in later versions)
delete_password(st, account, fault) ==
    IF fault = "op"
    THEN [res |-> Err("PlatformFailure"), store |-> st]
    ELSE IF account \in DOMAIN st
    THEN [res |-> Ok(Unit), store |-> [a \in DOMAIN st \ {account} |-> st[a]]]
    ELSE [res |-> Err("NoEntry"), store |-> st]

\* the prefixes of path that are not directories yet, shortest first
RECURSIVE MissingFrom(_, _, _)
MissingFrom(dirs, path, i) ==
    IF i > Len(path) THEN <<>>
    ELSE IF SubSeq(path, 1, i) \in dirs THEN MissingFrom(dirs, path, i + 1)
    ELSE <<SubSeq(path, 1, i)>> \o MissingFrom(dirs, path, i + 1)

Missing(dirs, path) == MissingFrom(dirs, path, 1)

\* Path::exists
exists(dirs, path) == path \in dirs

\* std::io::ErrorKind of a failed directory creation
IoErrorKinds == {"PermissionDenied", "Other"}

\* a creation that fails on a path that is a directory already, as
\* fs::create_dir does
create_dir_all_FailsIfExists(dirs, path, made, kind) ==
    LET missing == Missing(dirs, path)
        n == IF made < Len(missing) THEN made ELSE Len(missing)
    IN  IF path \in dirs
        THEN [res |-> Err("AlreadyExists"), fs |-> dirs]
        ELSE [res |-> IF n = Len(missing) THEN Ok(Unit) ELSE Err(kind),
              fs |-> dirs \cup {missing[i] : i \in 1..n}]

\* fs::create_dir_all: creates the missing prefixes shortest first; the
\* environment lets the first `made` of them succeed.  A path whose prefixes
\* all exist is a success whatever the environment does.
create_dir_all(dirs, path, made, kind) ==
    LET missing == Missing(dirs, path)
        n == IF made < Len(missing) THEN made ELSE Len(missing)
    IN  [res |-> IF n = Len(missing) THEN Ok(Unit) ELSE Err(kind),
         fs |-> dirs \cup {missing[i] : i \in 1..n}]

(* ------------------------------ helpers -------------------------------- *)

home_directory(env_home) ==
    IF env_home = None
    THEN Err(<<"Unable to resolve user home directory.">>)
    ELSE Ok(env_home[2])

workspace_create_error(path, kind) ==
    IF kind = "PermissionDenied"
    THEN <<"Unable to create workspace at", path, kind,
           "Grant Files and Folders access">>
    ELSE <<"Unable to create workspace at", path, kind>>

keychain_entry(profile_id, token_kind, fault) ==
    IF fault = "entry"
    THEN Err(<<"Unable to access keychain entry", "PlatformFailure">>)
    ELSE Ok(account_name(profile_id, token_kind))

\* a matcher whose phrases the text of NoEntry does not hold
is_missing_keychain_entry_NoMatch(error) == FALSE

\* the rendered text of NoEntry is taken to hold one of the two phrases the
\* matcher looks for; every other error's text holds neither
is_missing_keychain_entry(error) == error = "NoEntry"

\* a delete_if_present that takes every error of the deletion for absence
delete_if_present_SwallowsErrors(st, entry, fault) ==
    [res |-> Ok(Unit), store |-> delete_password(st, entry, fault).store]

delete_if_present(st, entry, fault) ==
    LET d == delete_password(st, entry, fault)
    IN  [res |-> IF IsOk(d.res) THEN Ok(Unit)
                 ELSE IF is_missing_keychain_entry(d.res[2]) THEN Ok(Unit)
                 ELSE Err(<<"Unable to clear keychain entry", d.res[2]>>),
         store |-> d.store]

(* ------------------------------- state --------------------------------- *)

VARIABLES
    store,   \* the keychain of service "ken-desktop": account name -> secret
    fs,      \* the directories that exist
    home,    \* the HOME variable of the process: None or Some(path)
    rec,     \* per worker: the command it runs, its arguments, locals, result
    prev     \* the command that returned last

vars == <<store, fs, home, rec, prev>>

\* the home directories a process is started with
Homes == { <<"Users", "tester">> }

IdleRec ==
    [op |-> "idle", pc |-> "idle", profile_id |-> <<>>, access_token |-> <<>>,
     refresh_token |-> None, thread_id |-> <<>>, read |-> <<>>,
     already_exists |-> FALSE, result |-> Pending, calls |-> <<>>]

\* what the host remembers of a command that returned: which command it
\* was, whether it succeeded and, if it did, the arguments it was given with
\* their surrounding whitespace removed, and what an ensure returned
Summary(r) ==
    IF IsOk(r.result)
    THEN [op |-> r.op, ok |-> TRUE, profile_id |-> r.profile_id,
          access |-> Trim(r.access_token),
          refresh |-> IF r.refresh_token = None THEN None
                      ELSE Some(Trim(r.refresh_token[2])),
          info |-> IF r.op = "ensure" THEN r.result[2] ELSE <<>>]
    ELSE [op |-> r.op, ok |-> FALSE, profile_id |-> r.profile_id,
          access |-> <<>>, refresh |-> None, info |-> <<>>]

Init ==
    /\ store = [a \in {} |-> <<>>]
    /\ home \in {None} \cup {Some(h) : h \in Homes}
    /\ fs = IF home = None THEN {}
            ELSE {SubSeq(home[2], 1, i) : i \in 1..Len(home[2])}
    /\ rec = [w \in Workers |-> IdleRec]
    /\ prev = Summary(IdleRec)

Idle(w) == rec[w].pc = "idle"

Finish(r, result) == [r EXCEPT !.pc = "done", !.result = result]

\* how a call on a collaborator ended, as its caller sees it
Outcome(res) ==
    IF IsOk(res) THEN "ok"
    ELSE IF res[2] = "NoEntry" THEN "absent"
    ELSE "failure"

\* one entry of a command's log of the calls it made on its collaborators
Call(api, target, outcome) == <<api, target, outcome>>

(* -------------------------- save_auth_tokens --------------------------- *)

\* a save that goes on to the refresh entry when the access write failed
SaveAccess_IgnoresWriteError(w, profile_id, access_token, refresh_token, fault) ==
    LET r0 == [IdleRec EXCEPT !.op = "save", !.profile_id = profile_id,
                              !.access_token = access_token,
                              !.refresh_token = refresh_token]
        normalized == normalize_token(access_token)
        entry == keychain_entry(profile_id, KindAccess, fault)
        r1 == [r0 EXCEPT !.calls = <<Call("Entry::new", account_name(profile_id, KindAccess), IF IsOk(entry) THEN "ok" ELSE "failure")>>]
        set == set_password(store, entry[2], normalized[2], fault)
        r2 == [r1 EXCEPT !.calls = Append(@, Call("set_password", entry[2], Outcome(set.res)))]
    IN  /\ Idle(w)
        /\ IF normalized = None
           THEN /\ rec' = [rec EXCEPT ![w] = Finish(r0, Err(<<"Access token is required.">>))]
                /\ store' = store
           ELSE IF IsErr(entry)
           THEN /\ rec' = [rec EXCEPT ![w] = Finish(r1, entry)]
                /\ store' = store
           ELSE IF IsErr(set.res)
           THEN /\ rec' = [rec EXCEPT ![w] = [r2 EXCEPT !.pc = "save_refresh"]]
                /\ store' = set.store
           ELSE /\ rec' = [rec EXCEPT ![w] = [r2 EXCEPT !.pc = "save_refresh"]]
                /\ store' = set.store
        /\ UNCHANGED <<fs, home, prev>>

\* lines 94-105: validate the access token, then write the access entry
SaveAccess(w, profile_id, access_token, refresh_token, fault) ==
    LET r0 == [IdleRec EXCEPT !.op = "save", !.profile_id = profile_id,
                              !.access_token = access_token,
                              !.refresh_token = refresh_token]
        normalized == normalize_token(access_token)
        entry == keychain_entry(profile_id, KindAccess, fault)
        r1 == [r0 EXCEPT !.calls = <<Call("Entry::new", account_name(profile_id, KindAccess), IF IsOk(entry) THEN "ok" ELSE "failure")>>]
        set == set_password(store, entry[2], normalized[2], fault)
        r2 == [r1 EXCEPT !.calls = Append(@, Call("set_password", entry[2], Outcome(set.res)))]
    IN  /\ Idle(w)
        /\ IF normalized = None
           THEN /\ rec' = [rec EXCEPT ![w] = Finish(r0, Err(<<"Access token is required.">>))]
                /\ store' = store
           ELSE IF IsErr(entry)
           THEN /\ rec' = [rec EXCEPT ![w] = Finish(r1, entry)]
                /\ store' = store
           ELSE IF IsErr(set.res)
           THEN /\ rec' = [rec EXCEPT ![w] =
                            Finish(r2, Err(<<"Unable to save access token", set.res[2]>>))]
                /\ store' = set.store
           ELSE /\ rec' = [rec EXCEPT ![w] = [r2 EXCEPT !.pc = "save_refresh"]]
                /\ store' = set.store
        /\ UNCHANGED <<fs, home, prev>>

\* a save that writes the refresh token as it was passed
SaveRefresh_StoresRaw(w, fault) ==
    LET r0 == rec[w]
        entry == keychain_entry(r0.profile_id, KindRefresh, fault)
        r1 == [r0 EXCEPT !.calls = Append(@, Call("Entry::new", account_name(r0.profile_id, KindRefresh), IF IsOk(entry) THEN "ok" ELSE "failure"))]
        normalized == r0.refresh_token
        set == set_password(store, entry[2], normalized[2], fault)
        del == delete_if_present(store, entry[2], fault)
        deleted == delete_password(store, entry[2], fault).res
    IN  /\ r0.pc = "save_refresh"
        /\ IF IsErr(entry)
           THEN /\ rec' = [rec EXCEPT ![w] = Finish(r1, entry)]
                /\ store' = store
           ELSE IF normalized # None
           THEN /\ rec' = [rec EXCEPT ![w] =
                    Finish([r1 EXCEPT !.calls = Append(@, Call("set_password", entry[2], Outcome(set.res)))],
                           IF IsErr(set.res)
                           THEN Err(<<"Unable to save refresh token", set.res[2]>>)
                           ELSE Ok(Unit))]
                /\ store' = set.store
           ELSE /\ rec' = [rec EXCEPT ![w] =
                    Finish([r1 EXCEPT !.calls = Append(@, Call("delete_password", entry[2], Outcome(deleted)))],
                           del.res)]
                /\ store' = del.store
        /\ UNCHANGED <<fs, home, prev>>

\* a save without a refresh token that leaves the refresh entry alone
SaveRefresh_SkipsDelete(w, fault) ==
    LET r0 == rec[w]
        entry == keychain_entry(r0.profile_id, KindRefresh, fault)
        r1 == [r0 EXCEPT !.calls = Append(@, Call("Entry::new", account_name(r0.profile_id, KindRefresh), IF IsOk(entry) THEN "ok" ELSE "failure"))]
        normalized == IF r0.refresh_token = None THEN None
                      ELSE normalize_token(r0.refresh_token[2])
        set == set_password(store, entry[2], normalized[2], fault)
        del == delete_if_present(store, entry[2], fault)
        deleted == delete_password(store, entry[2], fault).res
    IN  /\ r0.pc = "save_refresh"
        /\ IF IsErr(entry)
           THEN /\ rec' = [rec EXCEPT ![w] = Finish(r1, entry)]
                /\ store' = store
           ELSE IF normalized # None
           THEN /\ rec' = [rec EXCEPT ![w] =
                    Finish([r1 EXCEPT !.calls = Append(@, Call("set_password", entry[2], Outcome(set.res)))],
                           IF IsErr(set.res)
                           THEN Err(<<"Unable to save refresh token", set.res[2]>>)
                           ELSE Ok(Unit))]
                /\ store' = set.store
           ELSE /\ rec' = [rec EXCEPT ![w] = Finish(r1, Ok(Unit))]
                /\ store' = store
        /\ UNCHANGED <<fs, home, prev>>

\* lines 107-118: write or delete the refresh entry
SaveRefresh(w, fault) ==
    LET r0 == rec[w]
        entry == keychain_entry(r0.profile_id, KindRefresh, fault)
        r1 == [r0 EXCEPT !.calls = Append(@, Call("Entry::new", account_name(r0.profile_id, KindRefresh), IF IsOk(entry) THEN "ok" ELSE "failure"))]
        normalized == IF r0.refresh_token = None THEN None
                      ELSE normalize_token(r0.refresh_token[2])
        set == set_password(store, entry[2], normalized[2], fault)
        del == delete_if_present(store, entry[2], fault)
        deleted == delete_password(store, entry[2], fault).res
    IN  /\ r0.pc = "save_refresh"
        /\ IF IsErr(entry)
           THEN /\ rec' = [rec EXCEPT ![w] = Finish(r1, entry)]
                /\ store' = store
           ELSE IF normalized # None
           THEN /\ rec' = [rec EXCEPT ![w] =
                    Finish([r1 EXCEPT !.calls = Append(@, Call("set_password", entry[2], Outcome(set.res)))],
                           IF IsErr(set.res)
                           THEN Err(<<"Unable to save refresh token", set.res[2]>>)
                           ELSE Ok(Unit))]
                /\ store' = set.store
           ELSE /\ rec' = [rec EXCEPT ![w] =
                    Finish([r1 EXCEPT !.calls = Append(@, Call("delete_password", entry[2], Outcome(deleted)))],
                           del.res)]
                /\ store' = del.store
        /\ UNCHANGED <<fs, home, prev>>

(* -------------------------- load_auth_tokens --------------------------- *)

\* lines 122-128: read the access entry
LoadAccess(w, profile_id, fault) ==
    LET r0 == [IdleRec EXCEPT !.op = "load", !.profile_id = profile_id]
        entry == keychain_entry(profile_id, KindAccess, fault)
        r1 == [r0 EXCEPT !.calls = <<Call("Entry::new", account_name(profile_id, KindAccess), IF IsOk(entry) THEN "ok" ELSE "failure")>>]
        got == get_password(store, entry[2], fault)
        r2 == [r1 EXCEPT !.calls = Append(@, Call("get_password", entry[2], Outcome(got)))]
    IN  /\ Idle(w)
        /\ rec' = [rec EXCEPT ![w] =
              IF IsErr(entry) THEN Finish(r1, entry)
              ELSE IF IsOk(got) THEN [r2 EXCEPT !.pc = "load_refresh", !.read = got[2]]
              ELSE IF is_missing_keychain_entry(got[2]) THEN Finish(r2, Ok(None))
              ELSE Finish(r2, Err(<<"Unable to read access token", got[2]>>))]
        /\ UNCHANGED <<store, fs, home, prev>>

\* a load that takes a missing refresh entry for no stored tokens
LoadRefresh_MissingMeansNone(w, fault) ==
    LET r0 == rec[w]
        entry == keychain_entry(r0.profile_id, KindRefresh, fault)
        r1 == [r0 EXCEPT !.calls = Append(@, Call("Entry::new", account_name(r0.profile_id, KindRefresh), IF IsOk(entry) THEN "ok" ELSE "failure"))]
        got == get_password(store, entry[2], fault)
        r2 == [r1 EXCEPT !.calls = Append(@, Call("get_password", entry[2], Outcome(got)))]
    IN  /\ r0.pc = "load_refresh"
        /\ rec' = [rec EXCEPT ![w] =
              IF IsErr(entry) THEN Finish(r1, entry)
              ELSE IF IsOk(got)
              THEN Finish(r2, Ok(Some([access_token |-> r0.read,
                                       refresh_token |-> Some(got[2])])))
              ELSE IF is_missing_keychain_entry(got[2])
              THEN Finish(r2, Ok(None))
              ELSE Finish(r2, Err(<<"Unable to read refresh token", got[2]>>))]
        /\ UNCHANGED <<store, fs, home, prev>>

\* lines 130-140: read the refresh entry and build the pair
LoadRefresh(w, fault) ==
    LET r0 == rec[w]
        entry == keychain_entry(r0.profile_id, KindRefresh, fault)
        r1 == [r0 EXCEPT !.calls = Append(@, Call("Entry::new", account_name(r0.profile_id, KindRefresh), IF IsOk(entry) THEN "ok" ELSE "failure"))]
        got == get_password(store, entry[2], fault)
        r2 == [r1 EXCEPT !.calls = Append(@, Call("get_password", entry[2], Outcome(got)))]
    IN  /\ r0.pc = "load_refresh"
        /\ rec' = [rec EXCEPT ![w] =
              IF IsErr(entry) THEN Finish(r1, entry)
              ELSE IF IsOk(got)
              THEN Finish(r2, Ok(Some([access_token |-> r0.read,
                                       refresh_token |-> Some(got[2])])))
              ELSE IF is_missing_keychain_entry(got[2])
              THEN Finish(r2, Ok(Some([access_token |-> r0.read,
                                       refresh_token |-> None])))
              ELSE Finish(r2, Err(<<"Unable to read refresh token", got[2]>>))]
        /\ UNCHANGED <<store, fs, home, prev>>

(* -------------------------- clear_auth_tokens -------------------------- *)

\* a clear that starts with the refresh entry
ClearAccess_RefreshFirst(w, profile_id, fault) ==
    LET r0 == [IdleRec EXCEPT !.op = "clear", !.profile_id = profile_id]
        entry == keychain_entry(profile_id, KindRefresh, fault)
        r1 == [r0 EXCEPT !.calls = <<Call("Entry::new", account_name(profile_id, KindRefresh), IF IsOk(entry) THEN "ok" ELSE "failure")>>]
        del == delete_if_present(store, entry[2], fault)
        deleted == delete_password(store, entry[2], fault).res
        r2 == [r1 EXCEPT !.calls = Append(@, Call("delete_password", entry[2], Outcome(deleted)))]
    IN  /\ Idle(w)
        /\ IF IsErr(entry)
           THEN /\ rec' = [rec EXCEPT ![w] = Finish(r1, entry)]
                /\ store' = store
           ELSE /\ rec' = [rec EXCEPT ![w] =
                    IF IsErr(del.res) THEN Finish(r2, del.res)
                    ELSE [r2 EXCEPT !.pc = "clear_refresh"]]
                /\ store' = del.store
        /\ UNCHANGED <<fs, home, prev>>

\* a clear that returns when it finds no access entry
ClearAccess_StopsWhenAbsent(w, profile_id, fault) ==
    LET r0 == [IdleRec EXCEPT !.op = "clear", !.profile_id = profile_id]
        entry == keychain_entry(profile_id, KindAccess, fault)
        r1 == [r0 EXCEPT !.calls = <<Call("Entry::new", account_name(profile_id, KindAccess), IF IsOk(entry) THEN "ok" ELSE "failure")>>]
        del == delete_if_present(store, entry[2], fault)
        deleted == delete_password(store, entry[2], fault).res
        r2 == [r1 EXCEPT !.calls = Append(@, Call("delete_password", entry[2], Outcome(deleted)))]
    IN  /\ Idle(w)
        /\ IF IsErr(entry)
           THEN /\ rec' = [rec EXCEPT ![w] = Finish(r1, entry)]
                /\ store' = store
           ELSE /\ rec' = [rec EXCEPT ![w] =
                    IF IsErr(del.res) THEN Finish(r2, del.res)
                    ELSE IF IsErr(deleted) THEN Finish(r2, Ok(Unit))
                    ELSE [r2 EXCEPT !.pc = "clear_refresh"]]
                /\ store' = del.store
        /\ UNCHANGED <<fs, home, prev>>

\* lines 144-146: delete the access entry
ClearAccess(w, profile_id, fault) ==
    LET r0 == [IdleRec EXCEPT !.op = "clear", !.profile_id = profile_id]
        entry == keychain_entry(profile_id, KindAccess, fault)
        r1 == [r0 EXCEPT !.calls = <<Call("Entry::new", account_name(profile_id, KindAccess), IF IsOk(entry) THEN "ok" ELSE "failure")>>]
        del == delete_if_present(store, entry[2], fault)
        deleted == delete_password(store, entry[2], fault).res
        r2 == [r1 EXCEPT !.calls = Append(@, Call("delete_password", entry[2], Outcome(deleted)))]
    IN  /\ Idle(w)
        /\ IF IsErr(entry)
           THEN /\ rec' = [rec EXCEPT ![w] = Finish(r1, entry)]
                /\ store' = store
           ELSE /\ rec' = [rec EXCEPT ![w] =
                    IF IsErr(del.res) THEN Finish(r2, del.res)
                    ELSE [r2 EXCEPT !.pc = "clear_refresh"]]
                /\ store' = del.store
        /\ UNCHANGED <<fs, home, prev>>

\* a clear that leaves the refresh entry in place
ClearRefresh_LeavesEntry(w, fault) ==
    LET r0 == rec[w]
        entry == keychain_entry(r0.profile_id, KindRefresh, fault)
        r1 == [r0 EXCEPT !.calls = Append(@, Call("Entry::new", account_name(r0.profile_id, KindRefresh), IF IsOk(entry) THEN "ok" ELSE "failure"))]
        del == delete_if_present(store, entry[2], fault)
        deleted == delete_password(store, entry[2], fault).res
        r2 == [r1 EXCEPT !.calls = Append(@, Call("delete_password", entry[2], Outcome(deleted)))]
    IN  /\ r0.pc = "clear_refresh"
        /\ IF IsErr(entry)
           THEN /\ rec' = [rec EXCEPT ![w] = Finish(r1, entry)]
                /\ store' = store
           ELSE /\ rec' = [rec EXCEPT ![w] = Finish(r1, Ok(Unit))]
                /\ store' = store
        /\ UNCHANGED <<fs, home, prev>>

\* lines 148-151: delete the refresh entry
ClearRefresh(w, fault) ==
    LET r0 == rec[w]
        entry == keychain_entry(r0.profile_id, KindRefresh, fault)
        r1 == [r0 EXCEPT !.calls = Append(@, Call("Entry::new", account_name(r0.profile_id, KindRefresh), IF IsOk(entry) THEN "ok" ELSE "failure"))]
        del == delete_if_present(store, entry[2], fault)
        deleted == delete_password(store, entry[2], fault).res
        r2 == [r1 EXCEPT !.calls = Append(@, Call("delete_password", entry[2], Outcome(deleted)))]
    IN  /\ r0.pc = "clear_refresh"
        /\ IF IsErr(entry)
           THEN /\ rec' = [rec EXCEPT ![w] = Finish(r1, entry)]
                /\ store' = store
           ELSE /\ rec' = [rec EXCEPT ![w] = Finish(r2, del.res)]
                /\ store' = del.store
        /\ UNCHANGED <<fs, home, prev>>

(* ----------------------- ensure_thread_workspace ----------------------- *)

\* the paths a call computes from the home directory and its thread id
RootPathOf(env_home) == workspace_root_path(home_directory(env_home)[2])
\* a thread path joined from the raw thread id
ThreadPathOf_RawId(env_home, thread_id) ==
    PathJoin(RootPathOf(env_home), CharsToString(thread_id))

ThreadPathOf(env_home, thread_id) ==
    PathJoin(RootPathOf(env_home), CharsToString(normalize_thread_id(thread_id)[2]))

\* lines 155-163: normalize the id, resolve the paths, look whether the
\* thread directory exists
EnsureCheck(w, thread_id) ==
    LET r0 == [IdleRec EXCEPT !.op = "ensure", !.thread_id = thread_id]
        normalized == normalize_thread_id(thread_id)
        resolved == home_directory(home)
        r1 == [r0 EXCEPT !.calls = <<Call("env::var_os", <<"HOME">>, IF IsOk(resolved) THEN "ok" ELSE "absent")>>]
        thread_path == ThreadPathOf(home, thread_id)
    IN  /\ Idle(w)
        /\ rec' = [rec EXCEPT ![w] =
              IF normalized = None
              THEN Finish(r0, Err(<<"Thread ID is required and can only contain letters, numbers, '.', '_' or '-'.">>))
              ELSE IF IsErr(resolved) THEN Finish(r1, resolved)
              ELSE [r1 EXCEPT !.pc = "ensure_create",
                              !.already_exists = exists(fs, thread_path),
                              !.calls = Append(@, Call("exists", thread_path, IF exists(fs, thread_path) THEN "ok" ELSE "absent"))]]
        /\ UNCHANGED <<store, fs, home, prev>>

\* lines 165-173: create the directory and report; the environment decides
\* how many of the missing directories it lets the call create
EnsureCreate(w) ==
    LET r0 == rec[w]
        root_path == RootPathOf(home)
        thread_path == ThreadPathOf(home, r0.thread_id)
    IN  /\ r0.pc = "ensure_create"
        /\ \E made \in 0..Len(Missing(fs, thread_path)), kind \in IoErrorKinds :
              LET made_dirs == create_dir_all(fs, thread_path, made, kind)
                  r1 == [r0 EXCEPT !.calls =
                            Append(@, Call("create_dir_all", thread_path, Outcome(made_dirs.res)))]
              IN  /\ fs' = made_dirs.fs
                  /\ rec' = [rec EXCEPT ![w] =
                        IF IsErr(made_dirs.res)
                        THEN Finish(r1, Err(workspace_create_error(thread_path, made_dirs.res[2])))
                        ELSE Finish(r1, Ok([thread_id |-> normalize_thread_id(r0.thread_id)[2],
                                            root_path |-> PathToString(root_path),
                                            thread_path |-> PathToString(thread_path),
                                            created |-> ~r0.already_exists]))]
        /\ UNCHANGED <<store, home, prev>>

(* ------------------------------ the host ------------------------------- *)

\* the command returns to the caller
Return(w) ==
    /\ rec[w].pc = "done"
    /\ prev' = Summary(rec[w])
    /\ rec' = [rec EXCEPT ![w] = IdleRec]
    /\ UNCHANGED <<store, fs, home>>

\* the command returns to a caller that keeps no record of it
Forget(w) ==
    /\ rec[w].pc = "done"
    /\ rec' = [rec EXCEPT ![w] = IdleRec]
    /\ UNCHANGED <<store, fs, home, prev>>

RefreshArgs == {None} \cup {Some(t) : t \in Tokens}

InvokeVault(w, tokens, refreshes) ==
    \/ \E p \in Profiles, a \in tokens, r \in refreshes, f \in StoreFaults :
          SaveAccess(w, p, a, r, f)
    \/ \E p \in Profiles, f \in StoreFaults : LoadAccess(w, p, f)
    \/ \E p \in Profiles, f \in StoreFaults : ClearAccess(w, p, f)

ContinueVault(w) ==
    \/ \E f \in StoreFaults : SaveRefresh(w, f)
    \/ \E f \in StoreFaults : LoadRefresh(w, f)
    \/ \E f \in StoreFaults : ClearRefresh(w, f)

InvokeWorkspace(w) == \E t \in ThreadIds : EnsureCheck(w, t)

\* the worker of a host that runs one command at a time
SeqWorker == "w1"

\* the vault, one command at a time
NextVault ==
    \/ InvokeVault(SeqWorker, Tokens, RefreshArgs)
    \/ ContinueVault(SeqWorker)
    \/ Return(SeqWorker)

SpecVault == Init /\ [][NextVault]_vars

\* the tokens the callers of the concurrent vault pass
ConcTokens == { <<" ">>, <<"t">>, <<" ", "t">> }
ConcRefreshArgs == { None, Some(<<"t", " ">>) }

\* the vault, commands running concurrently on the workers
NextVaultConc ==
    \E w \in Workers :
        \/ InvokeVault(w, ConcTokens, ConcRefreshArgs)
        \/ ContinueVault(w)
        \/ Forget(w)

SpecVaultConc == Init /\ [][NextVaultConc]_vars

\* the provisioner, one command at a time
NextWorkspace ==
    \/ InvokeWorkspace(SeqWorker)
    \/ EnsureCreate(SeqWorker)
    \/ Return(SeqWorker)

SpecWorkspace == Init /\ [][NextWorkspace]_vars

\* the provisioner, commands running concurrently on the workers
NextWorkspaceConc ==
    \E w \in Workers :
        \/ InvokeWorkspace(w)
        \/ EnsureCreate(w)
        \/ Return(w)

SpecWorkspaceConc == Init /\ [][NextWorkspaceConc]_vars

(* ======================== the claims, settled ========================== *)

\* the command the one-at-a-time host is running, or has just finished
Cur == rec[SeqWorker]

\* the account names as the specification writes them: "{profile}:access"
\* and "{profile}:refresh"
AccessAccount(p) == p \o <<":", "a", "c", "c", "e", "s", "s">>
RefreshAccount(p) == p \o <<":", "r", "e", "f", "r", "e", "s", "h">>

\* the entry of an account: None when absent
EntryOf(st, account) == IF account \in DOMAIN st THEN Some(st[account]) ELSE None

\* a result that reports a failure of the keychain other than absence
StoreFailure(result) ==
    IsErr(result) /\ Len(result[2]) = 2 /\ result[2][2] = "PlatformFailure"

\* a load of profile p has just finished, and the command before it was a
\* successful op on the same profile
LoadAfter(op) ==
    /\ Cur.op = "load" /\ Cur.pc = "done"
    /\ prev.op = op /\ prev.ok /\ prev.profile_id = Cur.profile_id

NonBlankRefresh(summary) == IsSome(summary.refresh) /\ summary.refresh[2] # <<>>

\* C1 as stated: a load that follows a successful save(p, a, r) with r
\* non-blank returns Some pair (trim(a), Some(trim(r))).  It fails: the load
\* returns an error when one of its reads hits a keychain failure.
C1_Original ==
    (LoadAfter("save") /\ NonBlankRefresh(prev))
        => Cur.result = Ok(Some([access_token |-> prev.access,
                                 refresh_token |-> prev.refresh]))

\* C1, amended: a load that follows a successful save(p, a, r) with r
\* non-blank returns Some pair (trim(a), Some(trim(r))) unless one of its
\* reads hits a keychain failure other than absence, in which case it
\* returns that failure; it never returns None or another pair.
C1_SaveThenLoad ==
    (LoadAfter("save") /\ NonBlankRefresh(prev))
        => \/ Cur.result = Ok(Some([access_token |-> prev.access,
                                    refresh_token |-> prev.refresh]))
           \/ StoreFailure(Cur.result)

\* the round trip happened, with different tokens in the two fields
C1_Witness ==
    /\ LoadAfter("save") /\ NonBlankRefresh(prev)
    /\ IsOk(Cur.result)
    /\ prev.access # prev.refresh[2]

\* C2: a save whose access token is empty or whitespace-only returns the
\* 'access required' error and makes no call on the keychain: in the step
\* that runs it the command finishes with that error and an empty call log,
\* and the entries of every profile are what they were, whatever refresh
\* value the call carries.
C2_BlankAccessRejected ==
    [][\A w \in Workers :
          (rec[w].pc = "idle" /\ rec'[w].op = "save"
           /\ Trim(rec'[w].access_token) = <<>>)
              => /\ rec'[w].pc = "done"
                 /\ rec'[w].result = Err(<<"Access token is required.">>)
                 /\ rec'[w].calls = <<>>
                 /\ store' = store]_vars

\* a save with a blank access token and a valid refresh token was rejected
\* while the profile held tokens
C2_Witness ==
    /\ Cur.op = "save" /\ Cur.pc = "done"
    /\ Cur.access_token = <<" ", " ">>
    /\ Cur.refresh_token = Some(<<"t">>)
    /\ IsErr(Cur.result)
    /\ EntryOf(store, AccessAccount(Cur.profile_id)) # None
    /\ EntryOf(store, RefreshAccount(Cur.profile_id)) # None

\* the refresh argument of a summary is absent or blank
NoRefresh(summary) == summary.refresh = None \/ summary.refresh = Some(<<>>)

\* a save that has just succeeded with no refresh value leaves the access
\* entry at trim(a) and no refresh entry
SaveWithoutRefreshDone ==
    (Cur.op = "save" /\ Cur.pc = "done" /\ IsOk(Cur.result)
     /\ NoRefresh(Summary(Cur)))
        => /\ EntryOf(store, AccessAccount(Cur.profile_id)) = Some(Trim(Cur.access_token))
           /\ EntryOf(store, RefreshAccount(Cur.profile_id)) = None

\* no command reports the absence of an entry as an error
AbsenceIsNoError ==
    \A w \in Workers :
        IsErr(rec[w].result) => rec[w].result[2][Len(rec[w].result[2])] # "NoEntry"

\* C3 as stated: after a successful save with r absent or blank the refresh
\* entry is absent, and a following load returns trim(a) with refresh_token
\* None.  It fails: the load returns an error when one of its reads hits a
\* keychain failure.
C3_Original ==
    /\ SaveWithoutRefreshDone
    /\ (LoadAfter("save") /\ NoRefresh(prev))
          => Cur.result = Ok(Some([access_token |-> prev.access,
                                   refresh_token |-> None]))

\* C3, amended: after a successful save with r absent or blank the refresh
\* entry of p is absent whether or not one existed before (the absence of
\* the entry to delete is never an error), and a following load returns
\* trim(a) with refresh_token None unless one of its reads hits a keychain
\* failure other than absence, in which case it returns that failure.
C3_SaveWithoutRefresh ==
    /\ SaveWithoutRefreshDone
    /\ AbsenceIsNoError
    /\ (LoadAfter("save") /\ NoRefresh(prev))
          => \/ Cur.result = Ok(Some([access_token |-> prev.access,
                                      refresh_token |-> None]))
             \/ StoreFailure(Cur.result)

\* a save with a blank refresh value succeeded right after a clear of the
\* same profile: the refresh entry it deleted did not exist
C3_Witness ==
    /\ Cur.op = "save" /\ Cur.pc = "done" /\ IsOk(Cur.result)
    /\ Cur.refresh_token = Some(<<" ">>)
    /\ prev.op = "clear" /\ prev.ok /\ prev.profile_id = Cur.profile_id

\* C4: a load that follows a clear of the same profile returns None, and
\* an error only when the keychain reports a failure other than absence.
C4_ClearThenLoad ==
    LoadAfter("clear") => (Cur.result = Ok(None) \/ StoreFailure(Cur.result))

\* a load after a clear returned None
C4_Witness == LoadAfter("clear") /\ Cur.result = Ok(None)

\* the thread directory of a raw id as the specification derives it: the
\* root under the home directory, then the id trimmed and lowercased
SpecThreadDir(raw) ==
    home[2] \o <<"Executive Assistant", "Ken", CharsToString(ToAsciiLowercase(Trim(raw)))>>

\* a successful ensure reports created exactly when the directory did not
\* exist, and the directory exists afterwards
EnsureFirst ==
    \A w \in Workers :
        (rec[w].pc = "ensure_create" /\ IsOk(rec'[w].result))
            => /\ rec'[w].result[2].created = (SpecThreadDir(rec[w].thread_id) \notin fs)
               /\ SpecThreadDir(rec[w].thread_id) \in fs'

\* an ensure that follows a successful ensure of an id with the same
\* normalized value succeeds with the same answer but created = false, and
\* the directory is in place
EnsureLater ==
    (/\ Cur.op = "ensure" /\ Cur.pc = "done"
     /\ prev.op = "ensure" /\ prev.ok
     /\ ToAsciiLowercase(Trim(Cur.thread_id)) = prev.info.thread_id)
        => /\ Cur.result = Ok([prev.info EXCEPT !.created = FALSE])
           /\ SpecThreadDir(Cur.thread_id) \in fs

\* C5: ensure_thread_workspace is idempotent in sequence: the first
\* successful call for a thread directory that does not exist returns
\* created = true, every later call whose raw id normalizes to the same
\* value returns created = false with the same thread_id, root_path and
\* thread_path, and no directory is ever removed.
C5_EnsureIdempotent == [][EnsureFirst /\ EnsureLater' /\ fs \subseteq fs']_vars

\* a second call, with a raw id that differs from the normalized one,
\* returned created = false after the first returned created = true
C5_Witness ==
    /\ Cur.op = "ensure" /\ Cur.pc = "done" /\ IsOk(Cur.result)
    /\ Cur.thread_id = <<" ", "T">>
    /\ ~Cur.result[2].created
    /\ prev.op = "ensure" /\ prev.ok /\ prev.info.created
    /\ prev.info.thread_id = <<"t">>

\* the characters of a thread id
AllowedChar(c) == IsUpper(c) \/ IsLower(c) \/ c \in Digits \/ c \in {"-", "_", "."}

\* the step that runs an ensure on an id of the given kind rejects it before
\* any call on the environment or the filesystem
RejectedUntouched(Invalid(_)) ==
    \A w \in Workers :
        (rec[w].pc = "idle" /\ rec'[w].op = "ensure" /\ Invalid(rec'[w].thread_id))
            => /\ rec'[w].pc = "done"
               /\ IsErr(rec'[w].result)
               /\ rec'[w].result[2][1] =
                    "Thread ID is required and can only contain letters, numbers, '.', '_' or '-'."
               /\ rec'[w].calls = <<>>
               /\ fs' = fs

InvalidRaw(raw) == Trim(raw) = <<>> \/ \E i \in 1..Len(raw) : ~AllowedChar(raw[i])

InvalidTrimmed(raw) ==
    Trim(raw) = <<>> \/ \E i \in 1..Len(Trim(raw)) : ~AllowedChar(Trim(raw)[i])

\* C6 as stated: an id that is empty after trimming or contains any
\* character outside letters, digits, '-', '_', '.' is rejected before the
\* home directory is read and before any filesystem call.  It fails: an id
\* whose only disallowed characters are surrounding whitespace is accepted.
C6_Original == [][RejectedUntouched(InvalidRaw)]_vars

\* C6, amended: an id that is empty after trimming or whose trimmed text
\* contains any character outside letters, digits, '-', '_', '.' is
\* rejected with the validation error before the home directory is read and
\* before any filesystem call, and the filesystem is unchanged.
C6_InvalidIdUntouched == [][RejectedUntouched(InvalidTrimmed)]_vars

\* an id with a '/' was rejected with no call made, with a home directory
\* to resolve
C6_Witness ==
    /\ Cur.op = "ensure" /\ Cur.pc = "done"
    /\ Cur.thread_id = <<"t", "/">>
    /\ IsErr(Cur.result) /\ Cur.calls = <<>>
    /\ home # None

\* the command's log holds a call of this api on this account that ended so
Called(r, api, account, outcome) ==
    \E i \in 1..Len(r.calls) : r.calls[i] = <<api, account, outcome>>

\* the command's log holds a call of any kind on this account
Touched(r, account) == \E i \in 1..Len(r.calls) : r.calls[i][2] = account

IsPrefix(s, t) == Len(s) <= Len(t) /\ \A i \in 1..Len(s) : s[i] = t[i]

\* the calls of a command without their outcomes
Plan(r) == [i \in 1..Len(r.calls) |-> <<r.calls[i][1], r.calls[i][2]>>]

\* a save whose access write fails ends in that step with an error, the
\* keychain as it was and no call on the refresh account
AccessWriteFailure ==
    \A w \in Workers :
        (/\ rec[w].pc = "idle" /\ rec'[w].op = "save"
         /\ Called(rec'[w], "set_password", AccessAccount(rec'[w].profile_id), "failure"))
            => /\ rec'[w].pc = "done"
               /\ rec'[w].result = Err(<<"Unable to save access token", "PlatformFailure">>)
               /\ store' = store
               /\ ~Touched(rec'[w], RefreshAccount(rec'[w].profile_id))

\* a save whose access write succeeded and whose refresh write or delete
\* failed has returned an error, and the access entry holds trim(a)
RefreshWriteFailure ==
    LET p == Cur.profile_id
    IN  (/\ Cur.op = "save"
         /\ Called(Cur, "set_password", AccessAccount(p), "ok")
         /\ \/ Called(Cur, "set_password", RefreshAccount(p), "failure")
            \/ Called(Cur, "delete_password", RefreshAccount(p), "failure"))
            => /\ Cur.pc = "done"
               /\ StoreFailure(Cur.result)
               /\ EntryOf(store, AccessAccount(p)) = Some(Trim(Cur.access_token))

\* C7: if the access write of a save fails, the save returns an error and
\* makes no call on the refresh entry, which is unchanged; if the access
\* write succeeds and the refresh write or delete fails for a reason other
\* than absence, the save returns an error while the access entry holds the
\* new normalized access token.
C7_SavePartialFailure == [][AccessWriteFailure /\ RefreshWriteFailure']_vars

\* a save failed at its refresh write after it replaced a different access
\* token: the new access token, trimmed, is in the keychain
C7_Witness ==
    /\ Cur.op = "save" /\ Cur.pc = "done" /\ IsErr(Cur.result)
    /\ Cur.access_token = <<"t", " ">>
    /\ Called(Cur, "set_password", RefreshAccount(Cur.profile_id), "failure")
    /\ prev.op = "save" /\ prev.ok /\ prev.profile_id = Cur.profile_id
    /\ prev.access = <<"t", "t">>
    /\ EntryOf(store, AccessAccount(Cur.profile_id)) = Some(<<"t">>)

\* the calls of a clear or a load, in their order
VaultPlan(p, api) ==
    << <<"Entry::new", AccessAccount(p)>>, <<api, AccessAccount(p)>>,
       <<"Entry::new", RefreshAccount(p)>>, <<api, RefreshAccount(p)>> >>

\* a clear calls access first, then refresh
ClearOrder ==
    Cur.op = "clear"
        => /\ IsPrefix(Plan(Cur), VaultPlan(Cur.profile_id, "delete_password"))
           /\ (Cur.pc = "done" /\ IsOk(Cur.result)) => Len(Cur.calls) = 4
           /\ Cur.pc = "clear_refresh" => Len(Cur.calls) = 2

\* the first step of a clear: a failed access deletion ends the clear with
\* that error and the keychain as it was; an absent access entry does not
\* end it
ClearFailFast ==
    \A w \in Workers :
        (rec[w].pc = "idle" /\ rec'[w].op = "clear")
            => LET r == rec'[w]
                   acc == AccessAccount(r.profile_id)
               IN  /\ Called(r, "delete_password", acc, "failure")
                        => /\ r.pc = "done"
                           /\ r.result = Err(<<"Unable to clear keychain entry", "PlatformFailure">>)
                           /\ Len(r.calls) = 2
                           /\ store' = store
                   /\ (\/ Called(r, "delete_password", acc, "absent")
                       \/ Called(r, "delete_password", acc, "ok"))
                        => r.pc = "clear_refresh"

\* the second step of a clear calls for the refresh entry
ClearGoesOn ==
    \A w \in Workers :
        (rec[w].pc = "clear_refresh" /\ rec'[w] # rec[w])
            => /\ rec'[w].pc = "done"
               /\ Touched(rec'[w], RefreshAccount(rec[w].profile_id))

\* C8: clear_auth_tokens deletes access, then refresh; a failure of the
\* access deletion other than absence is returned and the refresh deletion
\* is not attempted, so the refresh entry is unchanged; an absent access
\* entry does not stop the refresh deletion.
C8_ClearOrder == [][ClearFailFast /\ ClearGoesOn /\ ClearOrder']_vars

\* a clear found the access entry absent and went on to delete a refresh
\* entry that existed
C8_Witness ==
    /\ Cur.op = "clear" /\ Cur.pc = "done" /\ IsOk(Cur.result)
    /\ Called(Cur, "delete_password", AccessAccount(Cur.profile_id), "absent")
    /\ Called(Cur, "delete_password", RefreshAccount(Cur.profile_id), "ok")

\* some call of the command failed for a reason other than absence
SomeFailure(r) == \E i \in 1..Len(r.calls) : r.calls[i][3] = "failure"

\* C9: load_auth_tokens reads access before refresh; with the access entry
\* absent it returns None after the access read alone, whether or not a
\* refresh entry exists; with the access entry present and the refresh entry
\* absent it returns the pair with refresh_token None; a failure other than
\* absence of either read makes it return an error.
C9_LoadOrder ==
    Cur.op = "load"
        => LET p == Cur.profile_id
               acc == EntryOf(store, AccessAccount(p))
               ref == EntryOf(store, RefreshAccount(p))
           IN  /\ IsPrefix(Plan(Cur), VaultPlan(p, "get_password"))
               /\ SomeFailure(Cur)
                    => /\ Cur.pc = "done"
                       /\ StoreFailure(Cur.result)
                       /\ Cur.calls[Len(Cur.calls)][3] = "failure"
               /\ (Cur.pc = "done" /\ ~SomeFailure(Cur))
                    => /\ acc = None
                            => Cur.result = Ok(None) /\ Len(Cur.calls) = 2
                       /\ (acc # None /\ ref = None)
                            => Cur.result = Ok(Some([access_token |-> acc[2],
                                                     refresh_token |-> None]))
                       /\ (acc # None /\ ref # None)
                            => Cur.result = Ok(Some([access_token |-> acc[2],
                                                     refresh_token |-> ref]))

\* a load returned None after the access read alone while the profile had a
\* refresh entry
C9_Witness ==
    /\ Cur.op = "load" /\ Cur.pc = "done" /\ Cur.result = Ok(None)
    /\ Len(Cur.calls) = 2
    /\ EntryOf(store, RefreshAccount(Cur.profile_id)) # None

\* profile ids made of 'p' and ':', alone or followed by a token kind with
\* or without the delimiter before it
TrickyProfiles ==
    {s \o t : s \in StringsUpTo({"p", ":"}, 2),
              t \in {<<>>, KindAccess, KindRefresh,
                     <<":">> \o KindAccess, <<":">> \o KindRefresh}}

\* the account names of two distinct profile ids never coincide
NoCollision ==
    \A p \in TrickyProfiles, q \in TrickyProfiles :
        p # q => \A k \in TokenKinds, l \in TokenKinds :
                    account_name(p, k) # account_name(q, l)

\* the vault commands of profile p call only "p:access" and "p:refresh"
OwnAccountsOnly ==
    \A w \in Workers :
        rec[w].op \in {"save", "load", "clear"}
            => \A i \in 1..Len(rec[w].calls) :
                  rec[w].calls[i][2] \in {AccessAccount(rec[w].profile_id),
                                          RefreshAccount(rec[w].profile_id)}

\* what a load of profile q finds in the keychain
LoadView(st, q) ==
    IF EntryOf(st, AccessAccount(q)) = None THEN None
    ELSE Some([access_token |-> st[AccessAccount(q)],
               refresh_token |-> EntryOf(st, RefreshAccount(q))])

\* a step of a command of profile p changes no account but p's two, and
\* leaves what a load of any other profile finds
OthersUntouched ==
    \A w \in Workers :
        rec'[w] # rec[w]
            => LET p == IF rec'[w].op = "idle" THEN rec[w].profile_id
                        ELSE rec'[w].profile_id
               IN  /\ \A a \in (DOMAIN store \cup DOMAIN store') \
                                  {AccessAccount(p), RefreshAccount(p)} :
                          EntryOf(store', a) = EntryOf(store, a)
                   /\ \A q \in Profiles \ {p} : LoadView(store', q) = LoadView(store, q)

\* C10: the vault commands of profile p read and write only "p:access" and
\* "p:refresh"; the account names of distinct profile ids never coincide,
\* also for ids that contain ':' or end in ':access' or ':refresh'; so every
\* step of a command of p, in any interleaving, leaves what a load of
\* another profile finds.
C10_ProfileIsolation == [][NoCollision /\ OwnAccountsOnly' /\ OthersUntouched]_vars

\* a save of "p" is between its two writes while a load of "p:access",
\* which holds tokens, has returned them
C10_Witness ==
    /\ rec["w1"].op = "save" /\ rec["w1"].pc = "save_refresh"
    /\ rec["w1"].profile_id = <<"p">>
    /\ rec["w2"].op = "load" /\ rec["w2"].pc = "done"
    /\ rec["w2"].profile_id = <<"p">> \o <<":">> \o KindAccess
    /\ IsOk(rec["w2"].result) /\ IsSome(rec["w2"].result[2])

(* ------------------- the pure functions on their own ------------------- *)

\* longest string the normalizers are applied to
MaxNormLen == 3

\* the characters of the strings normalize_thread_id is applied to: letters
\* of both cases, a digit, the three marks, whitespace and a separator
NormIdChars == {"T", "t", "1", "-", "_", ".", " ", "/"}

\* the characters of the strings normalize_token is applied to
NormTokChars == {" ", "\t", "t", "u"}

\* nothing but the call of a function has happened
InitPure(inputs) ==
    /\ store = [a \in {} |-> <<>>]
    /\ home = None
    /\ fs = {}
    /\ rec = [w \in Workers |-> IdleRec]
    /\ prev \in {[op |-> "called", raw |-> x] : x \in inputs}

\* the function returns
Apply(f(_)) ==
    /\ prev.op = "called"
    /\ prev' = [op |-> "returned", raw |-> prev.raw, out |-> f(prev.raw)]
    /\ UNCHANGED <<store, fs, home, rec>>

\* the function is called on what it returned, and returns
ApplyAgain(f(_)) ==
    /\ prev.op = "returned" /\ IsSome(prev.out)
    /\ prev' = [op |-> "returned again", raw |-> prev.raw, out |-> prev.out,
                again |-> f(prev.out[2])]
    /\ UNCHANGED <<store, fs, home, rec>>

NextNormalizeThreadId ==
    \/ Apply(normalize_thread_id)
    \/ ApplyAgain(normalize_thread_id)

SpecNormalizeThreadId ==
    InitPure(StringsUpTo(NormIdChars, MaxNormLen)) /\ [][NextNormalizeThreadId]_vars

NextNormalizeToken ==
    \/ Apply(normalize_token)
    \/ ApplyAgain(normalize_token)

SpecNormalizeToken ==
    InitPure(StringsUpTo(NormTokChars, MaxNormLen)) /\ [][NextNormalizeToken]_vars

\* the text of s between its first and its last character that is not
\* whitespace; empty when it has none
Stripped(s) ==
    LET solid == {i \in 1..Len(s) : s[i] \notin WhiteSpace}
    IN  IF solid = {} THEN <<>>
        ELSE LET first == CHOOSE i \in solid : \A j \in solid : i <= j
                 last == CHOOSE i \in solid : \A j \in solid : j <= i
             IN  [k \in 1..(last - first + 1) |-> s[first + k - 1]]

\* the characters of a normalized thread id
NormalizedChar(c) == IsLower(c) \/ c \in Digits \/ c \in {"-", "_", "."}

\* C12: where normalize_thread_id is defined, applying it to its result
\* gives the result again, and the result is non-empty and made of lowercase
\* letters, digits, '-', '_' and '.' only; an input with a '/' anywhere or a
\* space inside its trimmed text is rejected.
C12_ThreadIdNormalForm ==
    /\ (prev.op \in {"returned", "returned again"} /\ IsSome(prev.out))
          => /\ prev.out[2] # <<>>
             /\ \A i \in 1..Len(prev.out[2]) : NormalizedChar(prev.out[2][i])
    /\ prev.op = "returned again" => prev.again = prev.out
    /\ (/\ prev.op \in {"returned", "returned again"}
        /\ \/ \E i \in 1..Len(prev.raw) : prev.raw[i] = "/"
           \/ \E i \in 1..Len(Stripped(prev.raw)) : Stripped(prev.raw)[i] = " ")
          => prev.out = None

\* an id with surrounding whitespace and an uppercase letter was normalized
\* twice
C12_Witness ==
    /\ prev.op = "returned again"
    /\ prev.raw = <<" ", "T", "-">>
    /\ prev.again = Some(<<"t", "-">>)

\* C13: normalize_token(s) is None exactly when s without its surrounding
\* whitespace is empty, and otherwise Some of s without its surrounding
\* whitespace, the characters between unchanged.
C13_TokenNormalForm ==
    prev.op \in {"returned", "returned again"}
        => /\ prev.out = None <=> Stripped(prev.raw) = <<>>
           /\ prev.out # None => prev.out = Some(Stripped(prev.raw))

\* a token with whitespace around it and inside it was normalized
C13_Witness ==
    /\ prev.op = "returned"
    /\ prev.raw = <<"\t", "t", " ">>
    /\ prev.out = Some(<<"t">>)

\* the ensure of worker w has returned a description
EnsureDone(w) ==
    rec[w].op = "ensure" /\ rec[w].pc = "done" /\ IsOk(rec[w].result)

\* C14: among the successful ensure_thread_workspace calls whose ids
\* normalize to the same value, at most one returns created = true, also
\* when calls run concurrently.
C14_AtMostOneCreated ==
    /\ \A w, v \in Workers :
          (/\ w # v /\ EnsureDone(w) /\ EnsureDone(v)
           /\ rec[w].result[2].thread_id = rec[v].result[2].thread_id
           /\ rec[w].result[2].created)
              => ~rec[v].result[2].created
    /\ \A w \in Workers :
          (/\ EnsureDone(w) /\ prev.op = "ensure" /\ prev.ok
           /\ rec[w].result[2].thread_id = prev.info.thread_id
           /\ prev.info.created)
              => ~rec[w].result[2].created

\* a creation step fails only when the environment kept the thread
\* directory from being made: never on a directory another call has made
CreateTolerant ==
    \A w \in Workers :
        (rec[w].pc = "ensure_create" /\ rec'[w].pc = "done")
            => (IsOk(rec'[w].result) <=> SpecThreadDir(rec[w].thread_id) \in fs')

\* the calls that have returned a description for the same normalized id
\* have returned the same id and paths
SameAnswers ==
    \A w, v \in Workers :
        (/\ EnsureDone(w) /\ EnsureDone(v)
         /\ ToAsciiLowercase(Trim(rec[w].thread_id)) = ToAsciiLowercase(Trim(rec[v].thread_id)))
            => /\ rec[w].result[2].thread_id = rec[v].result[2].thread_id
               /\ rec[w].result[2].root_path = rec[v].result[2].root_path
               /\ rec[w].result[2].thread_path = rec[v].result[2].thread_path

\* the thread directory of every call that has returned a description exists
DirectoryInPlace ==
    /\ \A w \in Workers : EnsureDone(w) => SpecThreadDir(rec[w].thread_id) \in fs
    /\ (prev.op = "ensure" /\ prev.ok) => SpecThreadDir(prev.info.thread_id) \in fs

\* C15: concurrent ensure_thread_workspace calls for the same id race
\* safely: no call fails because another call made the directory or one of
\* its ancestors first (a call fails only when the filesystem refuses to
\* make a directory), the calls return the same thread_id, root_path and
\* thread_path, and the thread directory exists once any call has returned.
\* (Every state of the provisioner takes a step, an invocation, a creation
\* or a return, so the two state conditions are checked in every state.)
C15_EnsureRaceSafe == [][CreateTolerant /\ SameAnswers /\ DirectoryInPlace]_vars

\* two calls for the same directory ran at once, each found the directory
\* missing, and both have returned a description
C15_Witness ==
    /\ EnsureDone("w1") /\ EnsureDone("w2")
    /\ rec["w1"].thread_id = <<"T">> /\ rec["w2"].thread_id = <<"t", " ">>
    /\ ~rec["w1"].already_exists /\ ~rec["w2"].already_exists
    /\ rec["w1"].result[2].thread_path = rec["w2"].result[2].thread_path

\* C16: clear_auth_tokens attempts both deletions whichever entries exist:
\* whatever the keychain held before, a clear in which no call on the
\* keychain fails for a reason other than absence has called for the
\* deletion of both entries, returns success and leaves both entries of the
\* profile absent, a refresh entry without an access entry included.
C16_ClearRemovesBoth ==
    (Cur.op = "clear" /\ Cur.pc = "done" /\ ~SomeFailure(Cur))
        => /\ Cur.result = Ok(Unit)
           /\ Touched(Cur, AccessAccount(Cur.profile_id))
           /\ \E outcome \in {"ok", "absent"} :
                 Called(Cur, "delete_password", RefreshAccount(Cur.profile_id), outcome)
           /\ EntryOf(store, AccessAccount(Cur.profile_id)) = None
           /\ EntryOf(store, RefreshAccount(Cur.profile_id)) = None

\* a clear had failed on the refresh entry after it deleted the access
\* entry; the next clear of the profile found no access entry, deleted the
\* refresh entry and returned success
C16_Witness ==
    /\ Cur.op = "clear" /\ Cur.pc = "done" /\ Cur.result = Ok(Unit)
    /\ prev.op = "clear" /\ ~prev.ok /\ prev.profile_id = Cur.profile_id
    /\ Called(Cur, "delete_password", AccessAccount(Cur.profile_id), "absent")
    /\ Called(Cur, "delete_password", RefreshAccount(Cur.profile_id), "ok")
    /\ EntryOf(store, RefreshAccount(Cur.profile_id)) = None

\* a stored secret: not empty, no whitespace at either end
WellFormedSecret(v) ==
    /\ v # <<>>
    /\ v[1] \notin WhiteSpace
    /\ v[Len(v)] \notin WhiteSpace

\* C17: starting from an empty keychain, after any sequence of save, load
\* and clear, failing or not, every entry present is a non-empty string
\* without surrounding whitespace; and a load never returns an empty
\* access_token nor Some of an empty refresh_token.
C17_StoredValues ==
    /\ \A account \in DOMAIN store : WellFormedSecret(store[account])
    /\ (Cur.op = "load" /\ Cur.pc = "done" /\ IsOk(Cur.result) /\ Cur.result[2] # None)
          => /\ Cur.result[2][2].access_token # <<>>
             /\ Cur.result[2][2].refresh_token # Some(<<>>)

\* a load returned a stored pair; the command before it was a save that
\* failed
C17_Witness ==
    /\ Cur.op = "load" /\ Cur.pc = "done"
    /\ Cur.result = Ok(Some([access_token |-> <<"t">>, refresh_token |-> Some(<<"t">>)]))
    /\ store[AccessAccount(Cur.profile_id)] = <<"t">>
    /\ prev.op = "save" /\ ~prev.ok

(* --------------------- the vault under a host that --------------------- *)
(* ---------------------- keeps a record per profile --------------------- *)

\* the tokens the callers of the recording host pass
HistTokens == { <<" ">>, <<"t">>, <<"t", " ">>, <<"t", "t">> }
HistRefreshArgs == { None, Some(<<" ">>), Some(<<"t">>), Some(<<"t", "t">>) }

\* the refresh token a save is to leave stored: none when it was given none
\* or a blank one
NormalRefresh(refresh_token) ==
    IF refresh_token = None THEN None
    ELSE IF Trim(refresh_token[2]) = <<>> THEN None
    ELSE Some(Trim(refresh_token[2]))

\* the pair a save is to leave stored
PairOf(r) ==
    [access_token |-> Trim(r.access_token),
     refresh_token |-> NormalRefresh(r.refresh_token)]

\* a save or a clear that failed part-way: it returned an error from its
\* step on the refresh entry, after its step on the access entry
PartWay(r) ==
    /\ r.op \in {"save", "clear"}
    /\ IsErr(r.result)
    /\ Len(r.calls) > 2

\* what the recording host knows when command r has returned, from what it
\* knew before: the command and its arguments, for every profile the pair
\* of the save that wrote its access entry last (none once a clear has
\* deleted it), and the profiles whose last save or clear to get past its
\* first step failed part-way
HistoryOf(h, r) ==
    [op |-> r.op, ok |-> IsOk(r.result), profile_id |-> r.profile_id,
     access |-> Trim(r.access_token),
     refresh |-> NormalRefresh(r.refresh_token),
     part_way |-> PartWay(r),
     written |-> [p \in Profiles |->
        IF r.profile_id = p /\ Len(r.calls) >= 2 /\ r.calls[2][3] = "ok"
        THEN IF r.op = "save" THEN Some(PairOf(r))
             ELSE IF r.op = "clear" THEN None
             ELSE h.written[p]
        ELSE h.written[p]],
     torn |-> IF PartWay(r) THEN h.torn \cup {r.profile_id}
              ELSE IF r.op \in {"save", "clear"} /\ IsOk(r.result)
              THEN h.torn \ {r.profile_id}
              ELSE h.torn]

InitHist ==
    /\ store = [a \in {} |-> <<>>]
    /\ home \in {None} \cup {Some(h) : h \in Homes}
    /\ fs = IF home = None THEN {}
            ELSE {SubSeq(home[2], 1, i) : i \in 1..Len(home[2])}
    /\ rec = [w \in Workers |-> IdleRec]
    /\ prev = [op |-> "idle", ok |-> FALSE, profile_id |-> <<>>,
               access |-> <<>>, refresh |-> None, part_way |-> FALSE,
               written |-> [p \in Profiles |-> None], torn |-> {}]

\* the command returns to the recording host
Track(w) ==
    /\ rec[w].pc = "done"
    /\ prev' = HistoryOf(prev, rec[w])
    /\ rec' = [rec EXCEPT ![w] = IdleRec]
    /\ UNCHANGED <<store, fs, home>>

\* the profile whose commands the recording host runs
HistProfile == <<"p">>

\* the vault commands of one profile, one at a time, under the recording
\* host
NextVaultHist ==
    \/ \E a \in HistTokens, r \in HistRefreshArgs, f \in StoreFaults :
          SaveAccess(SeqWorker, HistProfile, a, r, f)
    \/ \E f \in StoreFaults : LoadAccess(SeqWorker, HistProfile, f)
    \/ \E f \in StoreFaults : ClearAccess(SeqWorker, HistProfile, f)
    \/ ContinueVault(SeqWorker)
    \/ Track(SeqWorker)

SpecVaultHist == InitHist /\ [][NextVaultHist]_vars

\* the entries of the profile of command r are those its save is to leave
StoredAsGiven(r) ==
    /\ EntryOf(store, AccessAccount(r.profile_id)) = Some(PairOf(r).access_token)
    /\ EntryOf(store, RefreshAccount(r.profile_id)) = PairOf(r).refresh_token

\* the running command is the save that returned last, given again
SameSaveAgain ==
    /\ Cur.op = "save" /\ prev.op = "save"
    /\ Cur.profile_id = prev.profile_id
    /\ Trim(Cur.access_token) = prev.access
    /\ NormalRefresh(Cur.refresh_token) = prev.refresh

\* C11: save_auth_tokens is idempotent per field and safe to retry: a
\* successful save(p, a, r) leaves for p exactly trim(a) and the normalized
\* r, whatever the keychain held, the leftovers of a save that failed
\* part-way included; and the same save run again after a successful one
\* leaves the entries of p as they were at each of its steps, and succeeds
\* unless a keychain call fails.
C11_SaveIdempotent ==
    /\ (Cur.op = "save" /\ Cur.pc = "done" /\ IsOk(Cur.result)) => StoredAsGiven(Cur)
    /\ (SameSaveAgain /\ prev.ok)
          => /\ StoredAsGiven(Cur)
             /\ (Cur.pc = "done" /\ ~SomeFailure(Cur)) => Cur.result = Ok(Unit)

\* a save wrote the access entry and failed on the refresh entry, leaving
\* the refresh entry of an earlier save; the same save, run again, succeeded
C11_Witness ==
    /\ SameSaveAgain /\ prev.part_way
    /\ Cur.pc = "done" /\ Cur.result = Ok(Unit)
    /\ prev.access = <<"t", "t">> /\ prev.refresh = None
    /\ Called(Cur, "delete_password", RefreshAccount(Cur.profile_id), "ok")

\* no command is running
Quiet == \A w \in Workers : Idle(w)

\* a load has returned a pair
LoadedPair ==
    Cur.op = "load" /\ Cur.pc = "done" /\ IsOk(Cur.result) /\ Cur.result[2] # None

\* C18, as stated: after every completed operation a refresh entry of p
\* exists only if an access entry of p exists, and a pair returned by a load
\* of p is the pair of one save call, also after a save or a clear that
\* failed part-way.
C18_Original ==
    /\ Quiet => \A p \in Profiles :
          EntryOf(store, RefreshAccount(p)) # None
              => EntryOf(store, AccessAccount(p)) # None
    /\ LoadedPair => Cur.result[2] = prev.written[Cur.profile_id]

\* C18: for a profile whose last save or clear to get past its first step
\* did not fail part-way, after every completed operation a refresh entry
\* exists only if an access entry exists, and a pair returned by a load is
\* the pair of the save call that wrote the access entry last.
C18_PairConsistency ==
    /\ Quiet => \A p \in Profiles \ prev.torn :
          EntryOf(store, RefreshAccount(p)) # None
              => EntryOf(store, AccessAccount(p)) # None
    /\ (LoadedPair /\ Cur.profile_id \notin prev.torn)
          => Cur.result[2] = prev.written[Cur.profile_id]

\* a load returned a pair with both tokens, stored by the save that
\* returned before it, and the profile is not marked torn
C18_Witness ==
    /\ LoadedPair
    /\ Cur.profile_id \notin prev.torn
    /\ Cur.result[2][2].refresh_token # None
    /\ prev.op = "save" /\ prev.ok /\ prev.profile_id = Cur.profile_id

====
